---- MODULE Spec2Model ----
(***************************************************************************)
(* Model of the banking core: Customer (PIN credential, failure counter,   *)
(* lock flag), Account (SavingsAccount / CheckingAccount: balance and      *)
(* transaction log) and Bank (customer table, global account index).       *)
(*                                                                         *)
(* Money is modelled in whole currency units (the source uses floats; the  *)
(* inputs enumerated here are whole amounts, on which float arithmetic is  *)
(* exact).  An interest rate r is held in percent (2 stands for 0.02) and  *)
(* the monthly interest balance * rate / 12 is rounded down to a whole     *)
(* unit.  The timestamp of a log entry (datetime.now()) is not modelled.   *)
(***************************************************************************)
EXTENDS Integers, Sequences, FiniteSets, TLC

VARIABLES customers, heap, bankAccounts, last

vars == <<customers, heap, bankAccounts, last>>

(***************************************************************************)
(* Bounds of the model and the inputs the operations are tried with.       *)
(***************************************************************************)
MaxLog == 3
MaxAccounts == 2
MaxHistory == 1
MaxStatementLog == 11

CustomerIds == {"cust001"}
RegistryIds == {"cust001", "cust002"}
Pins == {"1234", "5678"}
NoPin == ""
PinInputs == Pins \cup {NoPin}
Keys == {"admin123", "ADMIN123"}
Amounts == {-50, 0, 50, 600}
BankAmounts == {0, 50}
StatementAmounts == {50}
SharedAmounts == {50}
InitialBalances == {150}
RegistryBalances == {50}
AccountTypes == {"SAVINGS", "checking", "GOLD"}
InterestRates == {24}
OverdraftLimits == {500}

(***************************************************************************)
(* Program constants.                                                      *)
(***************************************************************************)
ADMIN_KEY == "admin123"
MinimumBalance == 100
OverdraftFee == 25
MaxFailedAttempts == 3
StatementWindow == 10

(***************************************************************************)
(* Customer                                                                *)
(***************************************************************************)
\* hashlib.sha256(pin.encode()).hexdigest(): a digest that differs from the
\* PIN itself and is distinct for distinct PINs.
hash_pin(pin) == <<"sha256", pin>>

\* Customer.__init__
NewCustomer(pin) ==
    [pin_hash |-> hash_pin(pin), accounts |-> <<>>,
     failed_attempts |-> 0, locked |-> FALSE]

\* verify_pin locking one failure late: > in place of >=.
verify_pin_late(cu, pin) ==
    IF cu.locked
    THEN [customer |-> cu, result |-> "AccountLockedError"]
    ELSE IF hash_pin(pin) = cu.pin_hash
    THEN [customer |-> [cu EXCEPT !.failed_attempts = 0], result |-> "True"]
    ELSE LET n == cu.failed_attempts + 1
         IN  IF n > MaxFailedAttempts
             THEN [customer |-> [cu EXCEPT !.failed_attempts = n, !.locked = TRUE],
                   result |-> "AccountLockedError"]
             ELSE [customer |-> [cu EXCEPT !.failed_attempts = n],
                   result |-> "False"]

\* verify_pin comparing the PIN before it looks at the lock flag.
verify_pin_unguarded(cu, pin) ==
    IF hash_pin(pin) = cu.pin_hash
    THEN [customer |-> [cu EXCEPT !.failed_attempts = 0], result |-> "True"]
    ELSE IF cu.locked
    THEN [customer |-> cu, result |-> "AccountLockedError"]
    ELSE LET n == cu.failed_attempts + 1
         IN  IF n >= MaxFailedAttempts
             THEN [customer |-> [cu EXCEPT !.failed_attempts = n, !.locked = TRUE],
                   result |-> "AccountLockedError"]
             ELSE [customer |-> [cu EXCEPT !.failed_attempts = n],
                   result |-> "False"]

\* verify_pin that does not clear the counter on a match.
verify_pin_keeps_count(cu, pin) ==
    IF cu.locked
    THEN [customer |-> cu, result |-> "AccountLockedError"]
    ELSE IF hash_pin(pin) = cu.pin_hash
    THEN [customer |-> cu, result |-> "True"]
    ELSE LET n == cu.failed_attempts + 1
         IN  IF n >= MaxFailedAttempts
             THEN [customer |-> [cu EXCEPT !.failed_attempts = n, !.locked = TRUE],
                   result |-> "AccountLockedError"]
             ELSE [customer |-> [cu EXCEPT !.failed_attempts = n],
                   result |-> "False"]

\* Customer.verify_pin: the customer after the call and what the call
\* returns ("True", "False") or raises ("AccountLockedError").
verify_pin(cu, pin) ==
    IF cu.locked
    THEN [customer |-> cu, result |-> "AccountLockedError"]
    ELSE IF hash_pin(pin) = cu.pin_hash
    THEN [customer |-> [cu EXCEPT !.failed_attempts = 0], result |-> "True"]
    ELSE LET n == cu.failed_attempts + 1
         IN  IF n >= MaxFailedAttempts
             THEN [customer |-> [cu EXCEPT !.failed_attempts = n, !.locked = TRUE],
                   result |-> "AccountLockedError"]
             ELSE [customer |-> [cu EXCEPT !.failed_attempts = n],
                   result |-> "False"]

\* reset_pin that stores the new PIN whatever the verification of the old
\* one says.
reset_pin_unchecked(cu, old_pin, new_pin) ==
    LET v == verify_pin(cu, old_pin)
    IN  IF v.result = "AccountLockedError"
        THEN v
        ELSE [customer |-> [v.customer EXCEPT !.pin_hash = hash_pin(new_pin)],
              result |-> v.result]

\* Customer.reset_pin
reset_pin(cu, old_pin, new_pin) ==
    LET v == verify_pin(cu, old_pin)
    IN  IF v.result = "True"
        THEN [customer |-> [v.customer EXCEPT !.pin_hash = hash_pin(new_pin)],
              result |-> "True"]
        ELSE v

\* unlock_account that also takes the default of its parameter, "ADMIN123",
\* for the key.
unlock_account_default_key(cu, admin_key) ==
    IF admin_key = ADMIN_KEY \/ admin_key = "ADMIN123"
    THEN [customer |-> [cu EXCEPT !.locked = FALSE, !.failed_attempts = 0],
          result |-> "True"]
    ELSE [customer |-> cu, result |-> "False"]

\* unlock_account that clears the lock flag and leaves the failure counter.
unlock_account_keeps_count(cu, admin_key) ==
    IF admin_key = ADMIN_KEY
    THEN [customer |-> [cu EXCEPT !.locked = FALSE], result |-> "True"]
    ELSE [customer |-> cu, result |-> "False"]

\* Customer.unlock_account
unlock_account(cu, admin_key) ==
    IF admin_key = ADMIN_KEY
    THEN [customer |-> [cu EXCEPT !.locked = FALSE, !.failed_attempts = 0],
          result |-> "True"]
    ELSE [customer |-> cu, result |-> "False"]

(***************************************************************************)
(* Account.  The operators below take the customer table cs and the        *)
(* account objects hp and give the two after the call, with the outcome:   *)
(* "ok" when the call returns, the name of the exception otherwise.        *)
(***************************************************************************)
Out(cs, hp, r) == [customers |-> cs, heap |-> hp, result |-> r]

IsChecking(acc) == acc.kind = "CheckingAccount"
IsSavings(acc) == acc.kind = "SavingsAccount"

\* A log that keeps only its newest entry.
log_transaction_keeps_last(acc, transaction_type, amount) ==
    [acc EXCEPT !.transactions =
        << [type |-> transaction_type, amount |-> amount,
            balance_after |-> acc.balance] >>]

\* Account._log_transaction
log_transaction(acc, transaction_type, amount) ==
    [acc EXCEPT !.transactions =
        Append(@, [type |-> transaction_type, amount |-> amount,
                   balance_after |-> acc.balance])]

\* get_statement giving the first entries of the log instead of the last.
get_statement_oldest(cs, acc) ==
    [account_number |-> acc.account_number,
     balance |-> acc.balance,
     owner |-> acc.owner,
     account_type |-> IF IsSavings(acc) THEN "Savings" ELSE "Checking",
     transactions |->
         IF Len(acc.transactions) <= StatementWindow
         THEN acc.transactions
         ELSE SubSeq(acc.transactions, 1, StatementWindow)]

\* Account.get_statement: the slice [-10:] is the whole log when it has at
\* most 10 entries and its last 10 otherwise; type(self).__name__ without
\* "Account" is the variant tag.  The owner's name is not modelled, the owner
\* stands for it.
get_statement(cs, acc) ==
    [account_number |-> acc.account_number,
     balance |-> acc.balance,
     owner |-> acc.owner,
     account_type |-> IF IsSavings(acc) THEN "Savings" ELSE "Checking",
     transactions |->
         IF Len(acc.transactions) <= StatementWindow
         THEN acc.transactions
         ELSE SubSeq(acc.transactions,
                     Len(acc.transactions) - StatementWindow + 1,
                     Len(acc.transactions))]

\* deposit that logs before it adds the amount.
deposit_logs_first(cs, hp, i, amount) ==
    IF amount <= 0
    THEN Out(cs, hp, "InvalidAmountError")
    ELSE Out(cs,
             [hp EXCEPT ![i] =
                 [log_transaction(@, "DEPOSIT", amount) EXCEPT !.balance = @ + amount]],
             "ok")

\* deposit that lets a zero amount through: < in place of <=.
deposit_accepts_zero(cs, hp, i, amount) ==
    IF amount < 0
    THEN Out(cs, hp, "InvalidAmountError")
    ELSE Out(cs,
             [hp EXCEPT ![i] = log_transaction([@ EXCEPT !.balance = @ + amount],
                                               "DEPOSIT", amount)],
             "ok")

\* Account.deposit
deposit(cs, hp, i, amount) ==
    IF amount <= 0
    THEN Out(cs, hp, "InvalidAmountError")
    ELSE Out(cs,
             [hp EXCEPT ![i] = log_transaction([@ EXCEPT !.balance = @ + amount],
                                               "DEPOSIT", amount)],
             "ok")

\* Account.verify_owner_pin
verify_owner_pin(cs, hp, i, pin) == verify_pin(cs[hp[i].owner], pin)

\* The savings floor with <= in place of <.
BelowFloor_savings_le(acc, amount) ==
    IF acc.kind = "SavingsAccount"
    THEN acc.balance - amount <= acc.minimum_balance
    ELSE acc.balance - amount < -acc.overdraft_limit

\* The overdraft floor with <= in place of <.
BelowFloor_checking_le(acc, amount) ==
    IF acc.kind = "SavingsAccount"
    THEN acc.balance - amount < acc.minimum_balance
    ELSE acc.balance - amount <= -acc.overdraft_limit

\* The savings floor forgotten: only a negative balance is refused, as in the
\* pre-check of transfer.
BelowFloor_savings_zero(acc, amount) ==
    IF acc.kind = "SavingsAccount"
    THEN acc.balance - amount < 0
    ELSE acc.balance - amount < -acc.overdraft_limit

\* The floor a withdrawal may not go below: SavingsAccount.withdraw checks
\* the minimum balance, CheckingAccount.withdraw the overdraft limit.
BelowFloor(acc, amount) ==
    IF IsSavings(acc)
    THEN acc.balance - amount < acc.minimum_balance
    ELSE acc.balance - amount < -acc.overdraft_limit

\* withdraw that looks at the floor before it asks for the PIN.
withdraw_floor_first(cs, hp, i, amount, pin) ==
    IF amount <= 0
    THEN Out(cs, hp, "InvalidAmountError")
    ELSE IF BelowFloor(hp[i], amount)
    THEN Out(cs, hp, "InsufficientFundsError")
    ELSE IF pin = NoPin
    THEN Out(cs, hp, "InvalidPINError")
    ELSE LET v == verify_owner_pin(cs, hp, i, pin)
             cs1 == [cs EXCEPT ![hp[i].owner] = v.customer]
         IN  IF v.result = "AccountLockedError"
             THEN Out(cs1, hp, "AccountLockedError")
             ELSE IF v.result = "False"
             THEN Out(cs1, hp, "InvalidPINError")
             ELSE Out(cs1,
                      [hp EXCEPT ![i] =
                          log_transaction([@ EXCEPT !.balance = @ - amount],
                                          "WITHDRAW", amount)],
                      "ok")

\* withdraw that reports a lock as a wrong PIN: the AccountLockedError of
\* the verification is caught and turned into InvalidPINError.
withdraw_masks_lock(cs, hp, i, amount, pin) ==
    IF amount <= 0
    THEN Out(cs, hp, "InvalidAmountError")
    ELSE IF pin = NoPin
    THEN Out(cs, hp, "InvalidPINError")
    ELSE LET v == verify_owner_pin(cs, hp, i, pin)
             cs1 == [cs EXCEPT ![hp[i].owner] = v.customer]
         IN  IF v.result # "True"
             THEN Out(cs1, hp, "InvalidPINError")
             ELSE IF BelowFloor(hp[i], amount)
             THEN Out(cs1, hp, "InsufficientFundsError")
             ELSE Out(cs1,
                      [hp EXCEPT ![i] =
                          log_transaction([@ EXCEPT !.balance = @ - amount],
                                          "WITHDRAW", amount)],
                      "ok")

\* SavingsAccount.withdraw and CheckingAccount.withdraw
withdraw(cs, hp, i, amount, pin) ==
    IF amount <= 0
    THEN Out(cs, hp, "InvalidAmountError")
    ELSE IF pin = NoPin
    THEN Out(cs, hp, "InvalidPINError")
    ELSE LET v == verify_owner_pin(cs, hp, i, pin)
             cs1 == [cs EXCEPT ![hp[i].owner] = v.customer]
         IN  IF v.result = "AccountLockedError"
             THEN Out(cs1, hp, "AccountLockedError")
             ELSE IF v.result = "False"
             THEN Out(cs1, hp, "InvalidPINError")
             ELSE IF BelowFloor(hp[i], amount)
             THEN Out(cs1, hp, "InsufficientFundsError")
             ELSE Out(cs1,
                      [hp EXCEPT ![i] =
                          log_transaction([@ EXCEPT !.balance = @ - amount],
                                          "WITHDRAW", amount)],
                      "ok")

\* The pre-check without the overdraft allowance of a checking account.
NotCovered_no_overdraft(acc, amount) == amount > acc.balance

\* The funds pre-check at the head of Account.transfer.
NotCovered(acc, amount) ==
    /\ amount > acc.balance
    /\ IF IsChecking(acc)
       THEN amount > acc.balance + acc.overdraft_limit
       ELSE TRUE

\* transfer that credits the target before it debits the source.
transfer_credits_first(cs, hp, i, j, amount, pin) ==
    IF NotCovered(hp[i], amount)
    THEN Out(cs, hp, "InsufficientFundsError")
    ELSE IF pin = NoPin
    THEN Out(cs, hp, "InvalidPINError")
    ELSE LET v == verify_pin(cs[hp[i].owner], pin)
             cs1 == [cs EXCEPT ![hp[i].owner] = v.customer]
         IN  IF v.result = "AccountLockedError"
             THEN Out(cs1, hp, "AccountLockedError")
             ELSE IF v.result = "False"
             THEN Out(cs1, hp, "InvalidPINError")
             ELSE LET d == deposit(cs1, hp, j, amount)
                  IN  IF d.result # "ok"
                      THEN d
                      ELSE LET w == withdraw(d.customers, d.heap, i, amount, pin)
                           IN  IF w.result # "ok"
                               THEN w
                               ELSE Out(w.customers,
                                        [w.heap EXCEPT ![i] =
                                            log_transaction(@,
                                                "TRANSFER to " \o hp[j].account_number,
                                                amount)],
                                        "ok")

\* transfer that debits the source and never credits the target.
transfer_no_credit(cs, hp, i, j, amount, pin) ==
    IF NotCovered(hp[i], amount)
    THEN Out(cs, hp, "InsufficientFundsError")
    ELSE IF pin = NoPin
    THEN Out(cs, hp, "InvalidPINError")
    ELSE LET v == verify_pin(cs[hp[i].owner], pin)
             cs1 == [cs EXCEPT ![hp[i].owner] = v.customer]
         IN  IF v.result = "AccountLockedError"
             THEN Out(cs1, hp, "AccountLockedError")
             ELSE IF v.result = "False"
             THEN Out(cs1, hp, "InvalidPINError")
             ELSE LET w == withdraw(cs1, hp, i, amount, pin)
                  IN  IF w.result # "ok"
                      THEN w
                      ELSE Out(w.customers,
                               [w.heap EXCEPT ![i] =
                                   log_transaction(@,
                                       "TRANSFER to " \o hp[j].account_number,
                                       amount)],
                               "ok")

\* transfer that verifies the PIN before it looks at the funds.
transfer_pin_first(cs, hp, i, j, amount, pin) ==
    IF pin = NoPin
    THEN Out(cs, hp, "InvalidPINError")
    ELSE LET v == verify_pin(cs[hp[i].owner], pin)
             cs1 == [cs EXCEPT ![hp[i].owner] = v.customer]
         IN  IF v.result = "AccountLockedError"
             THEN Out(cs1, hp, "AccountLockedError")
             ELSE IF v.result = "False"
             THEN Out(cs1, hp, "InvalidPINError")
             ELSE IF NotCovered(hp[i], amount)
             THEN Out(cs1, hp, "InsufficientFundsError")
             ELSE LET w == withdraw(cs1, hp, i, amount, pin)
                  IN  IF w.result # "ok"
                      THEN w
                      ELSE LET d == deposit(w.customers, w.heap, j, amount)
                           IN  IF d.result # "ok"
                               THEN d
                               ELSE Out(d.customers,
                                        [d.heap EXCEPT ![i] =
                                            log_transaction(@,
                                                "TRANSFER to " \o hp[j].account_number,
                                                amount)],
                                        "ok")

\* transfer that does not look at what verify_pin returns: after a wrong PIN
\* it goes on to withdraw, which asks for the PIN a second time.
transfer_double_count(cs, hp, i, j, amount, pin) ==
    IF NotCovered(hp[i], amount)
    THEN Out(cs, hp, "InsufficientFundsError")
    ELSE IF pin = NoPin
    THEN Out(cs, hp, "InvalidPINError")
    ELSE LET v == verify_pin(cs[hp[i].owner], pin)
             cs1 == [cs EXCEPT ![hp[i].owner] = v.customer]
         IN  IF v.result = "AccountLockedError"
             THEN Out(cs1, hp, "AccountLockedError")
             ELSE LET w == withdraw(cs1, hp, i, amount, pin)
                  IN  IF w.result # "ok"
                      THEN w
                      ELSE LET d == deposit(w.customers, w.heap, j, amount)
                           IN  IF d.result # "ok"
                               THEN d
                               ELSE Out(d.customers,
                                        [d.heap EXCEPT ![i] =
                                            log_transaction(@,
                                                "TRANSFER to " \o hp[j].account_number,
                                                amount)],
                                        "ok")

\* transfer that writes its own log entry before the withdrawal.
transfer_logs_before_withdraw(cs, hp, i, j, amount, pin) ==
    IF NotCovered(hp[i], amount)
    THEN Out(cs, hp, "InsufficientFundsError")
    ELSE IF pin = NoPin
    THEN Out(cs, hp, "InvalidPINError")
    ELSE LET v == verify_pin(cs[hp[i].owner], pin)
             cs1 == [cs EXCEPT ![hp[i].owner] = v.customer]
         IN  IF v.result = "AccountLockedError"
             THEN Out(cs1, hp, "AccountLockedError")
             ELSE IF v.result = "False"
             THEN Out(cs1, hp, "InvalidPINError")
             ELSE LET hp1 == [hp EXCEPT ![i] =
                                 log_transaction(@,
                                     "TRANSFER to " \o hp[j].account_number,
                                     amount)]
                      w == withdraw(cs1, hp1, i, amount, pin)
                  IN  IF w.result # "ok"
                      THEN w
                      ELSE deposit(w.customers, w.heap, j, amount)

\* transfer that asks the owner of the target for the PIN.
transfer_asks_target_owner(cs, hp, i, j, amount, pin) ==
    IF NotCovered(hp[i], amount)
    THEN Out(cs, hp, "InsufficientFundsError")
    ELSE IF pin = NoPin
    THEN Out(cs, hp, "InvalidPINError")
    ELSE LET v == verify_pin(cs[hp[j].owner], pin)
             cs1 == [cs EXCEPT ![hp[j].owner] = v.customer]
         IN  IF v.result = "AccountLockedError"
             THEN Out(cs1, hp, "AccountLockedError")
             ELSE IF v.result = "False"
             THEN Out(cs1, hp, "InvalidPINError")
             ELSE LET w == withdraw(cs1, hp, i, amount, pin)
                  IN  IF w.result # "ok"
                      THEN w
                      ELSE LET d == deposit(w.customers, w.heap, j, amount)
                           IN  IF d.result # "ok"
                               THEN d
                               ELSE Out(d.customers,
                                        [d.heap EXCEPT ![i] =
                                            log_transaction(@,
                                                "TRANSFER to " \o hp[j].account_number,
                                                amount)],
                                        "ok")

\* Account.transfer
transfer(cs, hp, i, j, amount, pin) ==
    IF NotCovered(hp[i], amount)
    THEN Out(cs, hp, "InsufficientFundsError")
    ELSE IF pin = NoPin
    THEN Out(cs, hp, "InvalidPINError")
    ELSE LET v == verify_pin(cs[hp[i].owner], pin)
             cs1 == [cs EXCEPT ![hp[i].owner] = v.customer]
         IN  IF v.result = "AccountLockedError"
             THEN Out(cs1, hp, "AccountLockedError")
             ELSE IF v.result = "False"
             THEN Out(cs1, hp, "InvalidPINError")
             ELSE LET w == withdraw(cs1, hp, i, amount, pin)
                  IN  IF w.result # "ok"
                      THEN w
                      ELSE LET d == deposit(w.customers, w.heap, j, amount)
                           IN  IF d.result # "ok"
                               THEN d
                               ELSE Out(d.customers,
                                        [d.heap EXCEPT ![i] =
                                            log_transaction(@,
                                                "TRANSFER to " \o hp[j].account_number,
                                                amount)],
                                        "ok")

\* The accrual paying interest on any savings balance that is not negative:
\* the minimum balance forgotten.
accrual_ignores_minimum(acc) ==
    IF IsSavings(acc)
    THEN IF acc.balance >= 0
         THEN LET monthly_interest == (acc.balance * acc.interest_rate) \div 1200
              IN  log_transaction([acc EXCEPT !.balance = @ + monthly_interest],
                                  "INTEREST", monthly_interest)
         ELSE acc
    ELSE IF acc.balance < 0
         THEN log_transaction([acc EXCEPT !.balance = @ - acc.overdraft_fee],
                              "OVERDRAFT_FEE", -acc.overdraft_fee)
         ELSE acc

\* The accrual logging the fee as a positive amount.
accrual_logs_fee_charged(acc) ==
    IF IsSavings(acc)
    THEN IF acc.balance >= acc.minimum_balance
         THEN LET monthly_interest == (acc.balance * acc.interest_rate) \div 1200
              IN  log_transaction([acc EXCEPT !.balance = @ + monthly_interest],
                                  "INTEREST", monthly_interest)
         ELSE acc
    ELSE IF acc.balance < 0
         THEN log_transaction([acc EXCEPT !.balance = @ - acc.overdraft_fee],
                              "OVERDRAFT_FEE", acc.overdraft_fee)
         ELSE acc

\* SavingsAccount.apply_monthly_charges_or_interest and
\* CheckingAccount.apply_monthly_charges_or_interest
apply_monthly_charges_or_interest(acc) ==
    IF IsSavings(acc)
    THEN IF acc.balance >= acc.minimum_balance
         THEN LET monthly_interest == (acc.balance * acc.interest_rate) \div 1200
              IN  log_transaction([acc EXCEPT !.balance = @ + monthly_interest],
                                  "INTEREST", monthly_interest)
         ELSE acc
    ELSE IF acc.balance < 0
         THEN log_transaction([acc EXCEPT !.balance = @ - acc.overdraft_fee],
                              "OVERDRAFT_FEE", -acc.overdraft_fee)
         ELSE acc

(***************************************************************************)
(* Bank                                                                    *)
(***************************************************************************)
\* The format specification 03d: at least three digits, zero padded.
Pad3(k) ==
    IF k < 10 THEN "00" \o ToString(k)
    ELSE IF k < 100 THEN "0" \o ToString(k)
    ELSE ToString(k)

\* An account number that leaves out the customer: the sequence number alone.
AccountNumber_no_customer(customer_id, k) == "ACC-" \o Pad3(k)

\* f"{customer_id}-{len(customer.accounts) + 1:03d}"
AccountNumber(customer_id, k) == customer_id \o "-" \o Pad3(k)

\* The account numbers a transfer is tried with: those of the accounts that
\* exist and, for the lookups of Bank.transfer, one that no account has.
UnknownNumber == "cust009-001"
TransferNumbers == DOMAIN bankAccounts
AnyNumbers == TransferNumbers \cup {UnknownNumber}

\* SavingsAccount.__init__ / CheckingAccount.__init__ (with Account.__init__)
NewAccount(account_number, owner, account_type, initial_balance, param) ==
    IF account_type = "SAVINGS"
    THEN [kind |-> "SavingsAccount", account_number |-> account_number,
          owner |-> owner, balance |-> initial_balance, transactions |-> <<>>,
          interest_rate |-> param, minimum_balance |-> MinimumBalance]
    ELSE [kind |-> "CheckingAccount", account_number |-> account_number,
          owner |-> owner, balance |-> initial_balance, transactions |-> <<>>,
          overdraft_limit |-> param, overdraft_fee |-> OverdraftFee]

\* The last call and how it ended: "ok", "True" or "False" when it returned,
\* the name of the exception otherwise.
Call(op, result) == [op |-> op, result |-> result]

RECURSIVE SumLogs(_, _)
SumLogs(hp, n) == IF n = 0 THEN 0 ELSE Len(hp[n].transactions) + SumLogs(hp, n - 1)

\* The logs are kept within the bound of the model.
LogRoom(hp) == SumLogs(hp, Len(hp)) <= MaxLog

Accounts == DOMAIN heap
Registered == DOMAIN customers

\* The empty bank: Bank.__init__
InitBank ==
    /\ customers = << >>
    /\ heap = << >>
    /\ bankAccounts = << >>
    /\ last = Call("init", "ok")

\* The first customer of create_test_bank with its two accounts, a savings
\* and a checking account, as add_customer and create_account leave them.
TestCustomers ==
    [c \in CustomerIds |-> [NewCustomer("1234") EXCEPT !.accounts = <<1, 2>>]]

TestHeap ==
    << NewAccount(AccountNumber("cust001", 1), "cust001", "SAVINGS", 150, 24),
       NewAccount(AccountNumber("cust001", 2), "cust001", "CHECKING", 100, 500) >>

Init ==
    /\ customers = TestCustomers
    /\ heap = TestHeap
    /\ bankAccounts = [n \in {heap[i].account_number : i \in DOMAIN heap} |->
                          CHOOSE i \in DOMAIN heap : heap[i].account_number = n]
    /\ last = Call("init", "ok")

\* add_customer without the test for an identifier that is taken: the new
\* customer takes the place of the old one.
add_customer_overwrites(cs, c, pin) ==
    [customers |-> [x \in DOMAIN cs \cup {c} |->
                       IF x = c THEN NewCustomer(pin) ELSE cs[x]],
     result |-> "ok"]

\* Bank.add_customer of a new Customer(customer_id, name, email, pin): the
\* customer table after the call and how the call ended.
add_customer(cs, c, pin) ==
    IF c \in DOMAIN cs
    THEN [customers |-> cs, result |-> "ValueError"]
    ELSE [customers |-> [x \in DOMAIN cs \cup {c} |->
                            IF x = c THEN NewCustomer(pin) ELSE cs[x]],
          result |-> "ok"]

\* Customer(customer_id, name, email, pin) followed by Bank.add_customer
AddCustomer(c, pin) ==
    LET r == add_customer(customers, c, pin)
    IN  /\ customers' = r.customers
        /\ last' = Call("add_customer", r.result)
        /\ UNCHANGED <<heap, bankAccounts>>

\* account_type.upper()
Upper(account_type) ==
    CASE account_type = "savings" -> "SAVINGS"
      [] account_type = "checking" -> "CHECKING"
      [] OTHER -> account_type

\* create_account that adds the account to the portfolio and forgets the
\* bank's index.
CreateAccount_unindexed(c, account_type, initial_balance, interest_rate, overdraft_limit) ==
    LET op == "create_account"
    IN  IF c \notin DOMAIN customers
        THEN /\ last' = Call(op, "ValueError")
             /\ UNCHANGED <<customers, heap, bankAccounts>>
        ELSE LET account_number ==
                     AccountNumber(c, Len(customers[c].accounts) + 1)
                 known == Upper(account_type) \in {"SAVINGS", "CHECKING"}
                 account ==
                     NewAccount(account_number, c, Upper(account_type),
                                initial_balance,
                                IF Upper(account_type) = "SAVINGS"
                                THEN interest_rate ELSE overdraft_limit)
                 i == Len(heap) + 1
             IN  IF ~known
                 THEN /\ last' = Call(op, "ValueError")
                      /\ UNCHANGED <<customers, heap, bankAccounts>>
                 ELSE /\ Len(heap) < MaxAccounts
                      /\ heap' = Append(heap, account)
                      /\ customers' =
                            [customers EXCEPT ![c].accounts = Append(@, i)]
                      /\ UNCHANGED bankAccounts
                      /\ last' = Call(op, "ok")

\* Bank.create_account (with Bank.get_customer and Customer.add_account)
CreateAccount(c, account_type, initial_balance, interest_rate, overdraft_limit) ==
    LET op == "create_account"
    IN  IF c \notin DOMAIN customers
        THEN /\ last' = Call(op, "ValueError")
             /\ UNCHANGED <<customers, heap, bankAccounts>>
        ELSE LET account_number ==
                     AccountNumber(c, Len(customers[c].accounts) + 1)
                 known == Upper(account_type) \in {"SAVINGS", "CHECKING"}
                 account ==
                     NewAccount(account_number, c, Upper(account_type),
                                initial_balance,
                                IF Upper(account_type) = "SAVINGS"
                                THEN interest_rate ELSE overdraft_limit)
                 i == Len(heap) + 1
             IN  IF ~known
                 THEN /\ last' = Call(op, "ValueError")
                      /\ UNCHANGED <<customers, heap, bankAccounts>>
                 ELSE /\ Len(heap) < MaxAccounts
                      /\ heap' = Append(heap, account)
                      /\ customers' =
                            [customers EXCEPT ![c].accounts = Append(@, i)]
                      /\ bankAccounts' =
                            [n \in DOMAIN bankAccounts \cup {account_number} |->
                                IF n = account_number THEN i ELSE bankAccounts[n]]
                      /\ last' = Call(op, "ok")

\* Account.deposit called on an account object
Deposit(i, amount) ==
    LET r == deposit(customers, heap, i, amount)
    IN  /\ LogRoom(r.heap)
        /\ customers' = r.customers
        /\ heap' = r.heap
        /\ last' = Call("deposit", r.result)
        /\ UNCHANGED bankAccounts

\* withdraw called on an account object
Withdraw(i, amount, pin) ==
    LET r == withdraw(customers, heap, i, amount, pin)
    IN  /\ LogRoom(r.heap)
        /\ customers' = r.customers
        /\ heap' = r.heap
        /\ last' = Call("withdraw", r.result)
        /\ UNCHANGED bankAccounts

\* Bank.transfer looking the destination up only after the owner of the
\* source has been asked for the PIN.
bank_transfer_late_lookup(cs, hp, ba, from_account_num, to_account_num, amount, pin) ==
    IF from_account_num \notin DOMAIN ba
    THEN Out(cs, hp, "AccountNotFoundError")
    ELSE IF to_account_num \notin DOMAIN ba
    THEN LET c == hp[ba[from_account_num]].owner
             v == verify_pin(cs[c], pin)
         IN  Out([cs EXCEPT ![c] = v.customer], hp, "AccountNotFoundError")
    ELSE transfer(cs, hp, ba[from_account_num], ba[to_account_num], amount, pin)

\* Bank.transfer (with Bank.get_account): the except clause prints and
\* re-raises, an AccountLockedError passes through it.
bank_transfer(cs, hp, ba, from_account_num, to_account_num, amount, pin) ==
    IF from_account_num \notin DOMAIN ba
    THEN Out(cs, hp, "AccountNotFoundError")
    ELSE IF to_account_num \notin DOMAIN ba
    THEN Out(cs, hp, "AccountNotFoundError")
    ELSE transfer(cs, hp, ba[from_account_num], ba[to_account_num], amount, pin)

\* Bank.transfer called on the bank
BankTransfer(from_account_num, to_account_num, amount, pin) ==
    LET r == bank_transfer(customers, heap, bankAccounts, from_account_num,
                           to_account_num, amount, pin)
    IN  /\ LogRoom(r.heap)
        /\ customers' = r.customers
        /\ heap' = r.heap
        /\ last' = Call("transfer", r.result)
        /\ UNCHANGED bankAccounts

\* apply_monthly_charges_or_interest called on an account object
ApplyMonthly(i) ==
    /\ heap' = [heap EXCEPT ![i] = apply_monthly_charges_or_interest(@)]
    /\ LogRoom(heap')
    /\ last' = Call("apply_monthly_charges_or_interest", "ok")
    /\ UNCHANGED <<customers, bankAccounts>>

\* Bank.apply_monthly_updates: the accrual of every account of the index ba
apply_monthly_updates(hp, ba) ==
    [i \in DOMAIN hp |->
        IF \E n \in DOMAIN ba : ba[n] = i
        THEN apply_monthly_charges_or_interest(hp[i])
        ELSE hp[i]]

\* Bank.apply_monthly_updates called on the bank
ApplyMonthlyUpdates ==
    /\ heap' = apply_monthly_updates(heap, bankAccounts)
    /\ LogRoom(heap')
    /\ last' = Call("apply_monthly_updates", "ok")
    /\ UNCHANGED <<customers, bankAccounts>>

\* Customer.verify_pin called on a customer
VerifyPin(c, pin) ==
    LET v == verify_pin(customers[c], pin)
    IN  /\ customers' = [customers EXCEPT ![c] = v.customer]
        /\ last' = Call("verify_pin", v.result)
        /\ UNCHANGED <<heap, bankAccounts>>

\* Customer.reset_pin called on a customer
ResetPin(c, old_pin, new_pin) ==
    LET v == reset_pin(customers[c], old_pin, new_pin)
    IN  /\ customers' = [customers EXCEPT ![c] = v.customer]
        /\ last' = Call("reset_pin", v.result)
        /\ UNCHANGED <<heap, bankAccounts>>

\* Customer.unlock_account called on a customer
UnlockAccount(c, admin_key) ==
    LET v == unlock_account(customers[c], admin_key)
    IN  /\ customers' = [customers EXCEPT ![c] = v.customer]
        /\ last' = Call("unlock_account", v.result)
        /\ UNCHANGED <<heap, bankAccounts>>

Next ==
    \/ \E i \in Accounts, a \in Amounts : Deposit(i, a)
    \/ \E i \in Accounts, a \in Amounts, pin \in PinInputs : Withdraw(i, a, pin)
    \/ \E n \in TransferNumbers, m \in TransferNumbers, a \in Amounts,
          pin \in PinInputs : BankTransfer(n, m, a, pin)
    \/ \E i \in Accounts : ApplyMonthly(i)
    \/ ApplyMonthlyUpdates
    \/ \E c \in Registered, pin \in Pins : VerifyPin(c, pin)
    \/ \E c \in Registered, k \in Keys : UnlockAccount(c, k)

Spec == Init /\ [][Next]_vars

\* The whole life of a bank from Bank.__init__ on, with short logs.
ShortLogs == SumLogs(heap', Len(heap')) <= MaxHistory

NextBank ==
    \/ \E c \in CustomerIds, pin \in Pins : AddCustomer(c, pin)
    \/ \E c \in CustomerIds, t \in AccountTypes, b \in InitialBalances,
          r \in InterestRates, l \in OverdraftLimits :
            CreateAccount(c, t, b, r, l)
    \/ \E i \in Accounts, a \in BankAmounts : Deposit(i, a) /\ ShortLogs
    \/ \E i \in Accounts, a \in BankAmounts, pin \in PinInputs :
          Withdraw(i, a, pin) /\ ShortLogs
    \/ \E n \in TransferNumbers, m \in TransferNumbers, a \in BankAmounts,
          pin \in PinInputs : BankTransfer(n, m, a, pin) /\ ShortLogs
    \/ \E i \in Accounts : ApplyMonthly(i) /\ ShortLogs
    \/ ApplyMonthlyUpdates /\ ShortLogs
    \/ \E c \in Registered, pin \in Pins : VerifyPin(c, pin)
    \/ \E c \in Registered, old \in Pins, new \in Pins : ResetPin(c, old, new)
    \/ \E c \in Registered, k \in Keys : UnlockAccount(c, k)

SpecBank == InitBank /\ [][NextBank]_vars

\* Account.deposit called on an account object whose log may grow past the
\* statement window
DepositLong(i, amount) ==
    LET r == deposit(customers, heap, i, amount)
    IN  /\ SumLogs(r.heap, Len(r.heap)) <= MaxStatementLog
        /\ customers' = r.customers
        /\ heap' = r.heap
        /\ last' = Call("deposit", r.result)
        /\ UNCHANGED bankAccounts

\* get_statement called on an account object
GetStatement(i) ==
    /\ get_statement(customers, heap[i]).account_number = heap[i].account_number
    /\ last' = Call("get_statement", "ok")
    /\ UNCHANGED <<customers, heap, bankAccounts>>

\* Long logs: a customer opens accounts, deposits again and again and reads
\* the statements.
NextStatement ==
    \/ \E c \in CustomerIds : AddCustomer(c, "1234")
    \/ \E c \in CustomerIds, t \in {"savings", "checking"},
          b \in InitialBalances, r \in InterestRates, l \in OverdraftLimits :
            CreateAccount(c, t, b, r, l)
    \/ \E i \in Accounts, a \in StatementAmounts : DepositLong(i, a)
    \/ \E i \in Accounts : GetStatement(i)

SpecStatement == InitBank /\ [][NextStatement]_vars

\* The two customers of create_test_bank, the first with a savings and a
\* checking account and the second with a savings account, as add_customer
\* and create_account leave them.
InitShared ==
    /\ customers =
          [c \in RegistryIds |->
              IF c = "cust001"
              THEN [NewCustomer("1234") EXCEPT !.accounts = <<1, 2>>]
              ELSE [NewCustomer("5678") EXCEPT !.accounts = <<3>>]]
    /\ heap =
          << NewAccount(AccountNumber("cust001", 1), "cust001", "SAVINGS", 150, 24),
             NewAccount(AccountNumber("cust001", 2), "cust001", "CHECKING", 100, 500),
             NewAccount(AccountNumber("cust002", 1), "cust002", "SAVINGS", 150, 24) >>
    /\ bankAccounts = [n \in {heap[i].account_number : i \in DOMAIN heap} |->
                          CHOOSE i \in DOMAIN heap : heap[i].account_number = n]
    /\ last = Call("init", "ok")

\* Two customers use their accounts: deposits, withdrawals and transfers with
\* either customer's PIN, and the monthly update.
NextShared ==
    \/ \E i \in Accounts, a \in SharedAmounts : Deposit(i, a)
    \/ \E i \in Accounts, a \in SharedAmounts, pin \in Pins : Withdraw(i, a, pin)
    \/ \E n \in TransferNumbers, m \in TransferNumbers, a \in SharedAmounts,
          pin \in Pins : BankTransfer(n, m, a, pin)
    \/ ApplyMonthlyUpdates

SpecShared == InitShared /\ [][NextShared]_vars

\* The bank as a registry: two customers register and open accounts, money
\* is moved by account number, known or not, and the monthly update runs.
NextRegistry ==
    \/ \E c \in RegistryIds, pin \in Pins : AddCustomer(c, pin)
    \/ \E c \in RegistryIds, t \in AccountTypes, b \in RegistryBalances,
          r \in InterestRates, l \in OverdraftLimits :
            CreateAccount(c, t, b, r, l)
    \/ \E n \in AnyNumbers, m \in AnyNumbers, a \in BankAmounts,
          pin \in PinInputs : BankTransfer(n, m, a, pin) /\ ShortLogs
    \/ ApplyMonthlyUpdates /\ ShortLogs

SpecRegistry == InitBank /\ [][NextRegistry]_vars

(***************************************************************************)
(* PIN lockout                                                             *)
(***************************************************************************)
Correct(c, pin) == hash_pin(pin) = customers[c].pin_hash

Owned(c) == {i \in Accounts : heap[i].owner = c}

\* The amount passes the head of transfer: it is within the balance, or the
\* account is a checking account and it is within balance plus limit.
Covered(i, a) ==
    \/ a <= heap[i].balance
    \/ heap[i].kind = "CheckingAccount"
        /\ a <= heap[i].balance + heap[i].overdraft_limit

\* What a failed verification must do to customer before, giving customer
\* after: below the third failure the counter goes up by one and the customer
\* stays unlocked, the third failure locks.
FailureCounted(before, after) ==
    IF before.failed_attempts < 2
    THEN after.failed_attempts = before.failed_attempts + 1 /\ ~after.locked
    ELSE after.locked

\* How the failure is reported: false (InvalidPINError from withdraw and
\* transfer) below the third failure, AccountLockedError on the third.
FailureReported(before, result, false) ==
    IF before.failed_attempts < 2
    THEN result = false
    ELSE result = "AccountLockedError"

\* C1: on an unlocked customer a failed PIN verification, made directly or
\* through reset_pin, withdraw or transfer on any of the customer's accounts,
\* takes the failure counter from 0 to 1 and from 1 to 2, returning false and
\* leaving the customer unlocked, and the third one in a row (counter 2) sets
\* the lock flag and itself ends with AccountLockedError.
C1_LockoutTrigger ==
    \A c \in Registered : \A pin \in Pins :
        (~customers[c].locked /\ ~Correct(c, pin)) =>
        LET cu == customers[c]
        IN  /\ LET v == verify_pin(cu, pin)
                IN  /\ FailureCounted(cu, v.customer)
                    /\ FailureReported(cu, v.result, "False")
            /\ \A new \in Pins :
                   LET v == reset_pin(cu, pin, new)
                   IN  /\ FailureCounted(cu, v.customer)
                       /\ FailureReported(cu, v.result, "False")
            /\ \A i \in Owned(c) : \A a \in Amounts : a > 0 =>
                   LET r == withdraw(customers, heap, i, a, pin)
                   IN  /\ FailureCounted(cu, r.customers[c])
                       /\ FailureReported(cu, r.result, "InvalidPINError")
            /\ \A i \in Owned(c) : \A j \in Accounts : \A a \in Amounts :
                   Covered(i, a) =>
                   LET r == bank_transfer(customers, heap, bankAccounts,
                                          heap[i].account_number,
                                          heap[j].account_number, a, pin)
                   IN  /\ FailureCounted(cu, r.customers[c])
                       /\ FailureReported(cu, r.result, "InvalidPINError")

\* The third failed transfer in a row has just locked the customer.
C1_Witness ==
    \E c \in Registered :
        /\ customers[c].locked
        /\ customers[c].failed_attempts = 3
        /\ last = Call("transfer", "AccountLockedError")

\* C2: a locked customer's verify_pin, called directly or reached through
\* reset_pin, withdraw or transfer, ends with AccountLockedError for every
\* PIN, correct or not, and changes nothing; unlock_account with a wrong key
\* leaves the lock; and in every step a locked customer stays locked unless
\* the step is an unlock_account that returned true (deposit, monthly
\* updates, account creation and the rest never clear the lock).
C2_LockedRejects ==
    \A c \in Registered : customers[c].locked =>
        LET cu == customers[c]
            Rejected(r) ==
                /\ r.result = "AccountLockedError"
                /\ r.customers = customers
                /\ r.heap = heap
        IN  /\ \A pin \in Pins :
                /\ verify_pin(cu, pin) =
                       [customer |-> cu, result |-> "AccountLockedError"]
                /\ \A new \in Pins :
                       reset_pin(cu, pin, new) =
                           [customer |-> cu, result |-> "AccountLockedError"]
                /\ \A i \in Owned(c) : \A a \in Amounts : a > 0 =>
                       Rejected(withdraw(customers, heap, i, a, pin))
                /\ \A i \in Owned(c) : \A j \in Accounts : \A a \in Amounts :
                       Covered(i, a) =>
                       Rejected(bank_transfer(customers, heap, bankAccounts,
                                              heap[i].account_number,
                                              heap[j].account_number, a, pin))
            /\ \A k \in Keys : k # ADMIN_KEY =>
                   unlock_account(cu, k) = [customer |-> cu, result |-> "False"]

C2_StaysLocked ==
    \A c \in Registered : customers[c].locked =>
        \/ customers'[c].locked
        \/ last' = Call("unlock_account", "True")

C2_LockPersists == [](C2_LockedRejects) /\ [][C2_StaysLocked]_vars

\* A locked customer has opened an account and is still locked.
C2_Witness ==
    \E c \in Registered :
        /\ customers[c].locked
        /\ customers[c].accounts # << >>
        /\ last = Call("create_account", "ok")

\* C3: on an unlocked customer every successful PIN verification, direct or
\* through reset_pin, withdraw or transfer, leaves the failure counter at 0
\* and the customer unlocked, and every failed one adds exactly 1 to the
\* counter; so fail, fail, success, fail, fail on a new customer ends
\* unlocked with counter 2.
C3_Counted(c, pin, after) ==
    IF Correct(c, pin)
    THEN after.failed_attempts = 0 /\ ~after.locked
    ELSE after.failed_attempts = customers[c].failed_attempts + 1

C3_Example ==
    LET good == "1234"
        bad == "5678"
        c0 == NewCustomer(good)
        c1 == verify_pin(c0, bad).customer
        c2 == verify_pin(c1, bad).customer
        c3 == verify_pin(c2, good).customer
        c4 == verify_pin(c3, bad).customer
        c5 == verify_pin(c4, bad).customer
    IN  /\ c2.failed_attempts = 2 /\ c3.failed_attempts = 0
        /\ c5.failed_attempts = 2 /\ ~c5.locked

C3_CounterReset ==
    /\ C3_Example
    /\ \A c \in Registered : \A pin \in Pins : ~customers[c].locked =>
        /\ C3_Counted(c, pin, verify_pin(customers[c], pin).customer)
        /\ \A new \in Pins :
               C3_Counted(c, pin, reset_pin(customers[c], pin, new).customer)
        /\ \A i \in Owned(c) : \A a \in Amounts : a > 0 =>
               C3_Counted(c, pin, withdraw(customers, heap, i, a, pin).customers[c])
        /\ \A i \in Owned(c) : \A j \in Accounts : \A a \in Amounts :
               Covered(i, a) =>
               C3_Counted(c, pin,
                   bank_transfer(customers, heap, bankAccounts,
                                 heap[i].account_number, heap[j].account_number,
                                 a, pin).customers[c])

\* A verification has just succeeded and the counter is 0.
C3_Witness ==
    \E c \in Registered :
        /\ customers[c].failed_attempts = 0
        /\ ~customers[c].locked
        /\ last = Call("verify_pin", "True")

(***************************************************************************)
(* Withdrawals and deposits                                                *)
(***************************************************************************)
Entry(type, amount, balance_after) ==
    [type |-> type, amount |-> amount, balance_after |-> balance_after]

\* Account i of hp is account i of heap with its balance lowered by amount
\* and one entry of the given type appended to its log, and hp is heap
\* everywhere else.
OnlyChanged(hp, i, new_balance, entry) ==
    hp = [heap EXCEPT ![i] = [@ EXCEPT !.balance = new_balance,
                                       !.transactions = Append(@, entry)]]

\* The owner of account i is unlocked and pin is the owner's PIN.
Authorised(i, pin) ==
    /\ ~customers[heap[i].owner].locked
    /\ Correct(heap[i].owner, pin)

\* A withdrawal of a positive amount with the correct PIN of an unlocked owner
\* succeeds exactly when the balance stays at or above floor; then the balance
\* goes down by the amount and one WITHDRAW entry is appended, otherwise it
\* fails with InsufficientFundsError and balance and log are unchanged.
WithdrawalRule(i, a, pin, floor) ==
    LET r == withdraw(customers, heap, i, a, pin)
        b == heap[i].balance
    IN  IF b - a >= floor
        THEN /\ r.result = "ok"
             /\ OnlyChanged(r.heap, i, b - a, Entry("WITHDRAW", a, b - a))
        ELSE /\ r.result = "InsufficientFundsError"
             /\ r.heap = heap

\* C4: a withdrawal from a savings account, of a positive amount with the
\* correct PIN of an unlocked owner, succeeds if and only if
\* balance - amount >= 100.
C4_SavingsWithdrawal ==
    \A i \in Accounts : \A a \in Amounts : \A pin \in Pins :
        (heap[i].kind = "SavingsAccount" /\ a > 0 /\ Authorised(i, pin))
        => WithdrawalRule(i, a, pin, 100)

\* A withdrawal has just taken a savings account to exactly 100.
C4_Witness ==
    \E i \in Accounts :
        /\ heap[i].kind = "SavingsAccount"
        /\ heap[i].balance = 100
        /\ heap[i].transactions # << >>
        /\ heap[i].transactions[Len(heap[i].transactions)].type = "WITHDRAW"
        /\ last = Call("withdraw", "ok")

C6_OverdraftBound ==
    \A i \in Accounts :
        heap[i].kind = "CheckingAccount"
        => heap[i].balance >= -heap[i].overdraft_limit

\* C7: the balance of a savings account that was created with at least 100
\* and a non-negative interest rate is never below 100, whatever deposits,
\* withdrawals, transfers in and out and monthly updates are made.
C7_MinimumBalance ==
    \A i \in Accounts :
        (heap[i].kind = "SavingsAccount" /\ heap[i].interest_rate >= 0)
        => heap[i].balance >= 100

\* A transfer out of a savings account has just taken it to exactly 100.
C7_Witness ==
    \E i \in Accounts :
        /\ heap[i].kind = "SavingsAccount"
        /\ heap[i].balance = 100
        /\ Len(heap[i].transactions) >= 2
        /\ heap[i].transactions[Len(heap[i].transactions) - 1].type = "WITHDRAW"
        /\ last = Call("transfer", "ok")

\* C8: a deposit of a positive amount succeeds on every account, whatever
\* its balance and whether its owner is locked or not; the balance goes up by
\* exactly the amount, one DEPOSIT entry with the amount and the new balance
\* is appended, and nothing else changes, the owner's failure counter and lock
\* flag included.
C8_DepositEffect ==
    \A i \in Accounts : \A a \in Amounts : a > 0 =>
        LET r == deposit(customers, heap, i, a)
            b == heap[i].balance
        IN  /\ r.result = "ok"
            /\ OnlyChanged(r.heap, i, b + a, Entry("DEPOSIT", a, b + a))
            /\ r.customers = customers

\* A deposit has just been made into an account whose owner is locked.
C8_Witness ==
    \E i \in Accounts :
        /\ customers[heap[i].owner].locked
        /\ heap[i].transactions # << >>
        /\ heap[i].transactions[Len(heap[i].transactions)].type = "DEPOSIT"
        /\ last = Call("deposit", "ok")

\* C9: a deposit of an amount <= 0 fails with InvalidAmountError and leaves
\* balance and log unchanged.
C9_DepositRejected ==
    \A i \in Accounts : \A a \in Amounts : a <= 0 =>
        LET r == deposit(customers, heap, i, a)
        IN  /\ r.result = "InvalidAmountError"
            /\ r.heap = heap
            /\ r.customers = customers

\* A deposit has just been refused.
C9_Witness ==
    /\ Accounts # {}
    /\ last = Call("deposit", "InvalidAmountError")

\* C10: a transfer that fails, for whatever reason, leaves the balance and
\* the log of the source and of the destination as they were.
C10_TransferAtomic ==
    \A n \in TransferNumbers : \A m \in TransferNumbers :
    \A a \in Amounts : \A pin \in PinInputs :
        LET r == bank_transfer(customers, heap, bankAccounts, n, m, a, pin)
        IN  r.result # "ok" =>
            \A i \in Accounts :
                /\ r.heap[i].balance = heap[i].balance
                /\ r.heap[i].transactions = heap[i].transactions

\* A transfer has just failed inside withdraw: the amount was within the
\* balance of the savings account but would have taken it below 100.
C10_Witness ==
    /\ last = Call("transfer", "InsufficientFundsError")
    /\ \E i \in Accounts : \E a \in Amounts :
          /\ heap[i].kind = "SavingsAccount"
          /\ a > 0 /\ a <= heap[i].balance /\ heap[i].balance - a < 100

(***************************************************************************)
(* Transfers                                                               *)
(***************************************************************************)
RECURSIVE SumBalances(_, _)
SumBalances(hp, n) == IF n = 0 THEN 0 ELSE hp[n].balance + SumBalances(hp, n - 1)

\* The sum of all balances held in hp.
TotalBalance(hp) == SumBalances(hp, Len(hp))

\* C11: a transfer between two distinct accounts either changes no balance
\* or takes exactly the amount from the source and adds exactly the amount to
\* the destination, touching no other balance; a transfer that returns has
\* done the second; and the sum of all balances is the same before and after
\* the call, however it ends.
C11_TransferConserves ==
    \A i \in Accounts : \A j \in Accounts \ {i} :
    \A a \in Amounts : \A pin \in PinInputs :
        LET r == transfer(customers, heap, i, j, a, pin)
            Same == \A k \in Accounts : r.heap[k].balance = heap[k].balance
            Moved ==
                /\ r.heap[i].balance = heap[i].balance - a
                /\ r.heap[j].balance = heap[j].balance + a
                /\ \A k \in Accounts \ {i, j} :
                       r.heap[k].balance = heap[k].balance
        IN  /\ Same \/ Moved
            /\ r.result = "ok" => Moved /\ a > 0
            /\ TotalBalance(r.heap) = TotalBalance(heap)

\* A transfer has just moved money: the source's log ends with the TRANSFER
\* entry naming another account, whose log ends with the DEPOSIT.
C11_Witness ==
    /\ last = Call("transfer", "ok")
    /\ \E i \in Accounts : \E j \in Accounts \ {i} :
          LET s == heap[i].transactions
              t == heap[j].transactions
          IN  /\ s # << >> /\ t # << >>
              /\ s[Len(s)].type = "TRANSFER to " \o heap[j].account_number
              /\ t[Len(t)].type = "DEPOSIT"
              /\ t[Len(t)].amount = s[Len(s)].amount

\* C12 as claimed: whenever transfer ends with InsufficientFundsError all
\* mutable state, balances, logs, failure counters and lock flags, is as it
\* was before the call.
C12_NoMutation ==
    \A i \in Accounts : \A j \in Accounts :
    \A a \in Amounts : \A pin \in PinInputs :
        LET r == transfer(customers, heap, i, j, a, pin)
        IN  r.result = "InsufficientFundsError" =>
            /\ r.heap = heap
            /\ r.customers = customers

\* C12 as amended: a transfer that ends with InsufficientFundsError leaves
\* both balances, both logs and every lock flag as they were.  When the
\* amount is not covered (it exceeds the balance, or balance plus overdraft
\* limit on a checking account) the failure precedes the PIN check and the
\* failure counters are unchanged too.  When the amount is covered, the
\* source is a savings account that the amount would take below 100: the
\* PIN has then been verified as correct for an unlocked owner, and the
\* owner's failure counter is 0 after the call, whatever it was before.
C12_InsufficientFundsFrame ==
    \A i \in Accounts : \A j \in Accounts :
    \A a \in Amounts : \A pin \in PinInputs :
        LET r == transfer(customers, heap, i, j, a, pin)
            c == heap[i].owner
        IN  r.result = "InsufficientFundsError" =>
            /\ r.heap = heap
            /\ \A x \in Registered : r.customers[x].locked = customers[x].locked
            /\ IF ~Covered(i, a)
               THEN r.customers = customers
               ELSE /\ heap[i].kind = "SavingsAccount"
                    /\ heap[i].balance - a < 100
                    /\ Authorised(i, pin)
                    /\ r.customers =
                           [customers EXCEPT ![c].failed_attempts = 0]

\* A transfer has just been refused for an amount that is not covered while
\* the owner stood at two failures: the two failures are still counted.
C12_Witness ==
    /\ last = Call("transfer", "InsufficientFundsError")
    /\ \A i \in Accounts :
          heap[i].kind = "SavingsAccount" => heap[i].balance >= 150
    /\ \E c \in Registered :
          customers[c].failed_attempts = 2 /\ ~customers[c].locked

(***************************************************************************)
(* PIN checks of withdraw                                                  *)
(***************************************************************************)
\* C13: withdraw of a positive amount with no PIN fails with
\* PINRequiredError, an error other than InvalidPINError, and changes
\* nothing; so does transfer.
C13_MissingPin ==
    \A i \in Accounts : \A a \in Amounts : a > 0 =>
        /\ LET r == withdraw(customers, heap, i, a, NoPin)
           IN  /\ r.result = "PINRequiredError"
               /\ r.result # "InvalidPINError"
               /\ r.heap = heap
               /\ r.customers = customers
        /\ \A j \in Accounts :
               LET r == transfer(customers, heap, i, j, a, NoPin)
               IN  /\ r.result = "PINRequiredError"
                   /\ r.heap = heap
                   /\ r.customers = customers

\* C14: withdraw of a positive amount with a PIN that is not the owner's
\* never changes an account.  On an unlocked owner it adds exactly 1 to the
\* failure counter and fails with InvalidPINError while the counter stays
\* below 3; when the attempt brings the counter to 3 the owner is locked
\* and the call ends with AccountLockedError; when the owner was locked
\* already the call ends with AccountLockedError and changes nothing.
C14_WrongPinOnWithdraw ==
    \A i \in Accounts : \A a \in Amounts : \A pin \in Pins :
        (a > 0 /\ ~Correct(heap[i].owner, pin)) =>
        LET r == withdraw(customers, heap, i, a, pin)
            c == heap[i].owner
            n == customers[c].failed_attempts
        IN  /\ r.heap = heap
            /\ IF customers[c].locked
               THEN /\ r.result = "AccountLockedError"
                    /\ r.customers = customers
               ELSE IF n + 1 < 3
               THEN /\ r.result = "InvalidPINError"
                    /\ r.customers =
                           [customers EXCEPT ![c].failed_attempts = n + 1]
               ELSE /\ r.result = "AccountLockedError"
                    /\ r.customers =
                           [customers EXCEPT ![c].failed_attempts = 3,
                                             ![c].locked = TRUE]

\* The third wrong PIN in a row on withdraw has just locked the owner.
C14_Witness ==
    /\ last = Call("withdraw", "AccountLockedError")
    /\ \E c \in Registered :
          customers[c].locked /\ customers[c].failed_attempts = 3

(***************************************************************************)
(* Monthly accrual                                                         *)
(***************************************************************************)
\* C15: the monthly accrual leaves balance and log of a savings account
\* below 100, and of a checking account at or above 0, as they are, called
\* on the account or through Bank.apply_monthly_updates, once or twice in a
\* row.
C15_NoOpAccrual ==
    \A i \in Accounts :
        (\/ heap[i].kind = "SavingsAccount" /\ heap[i].balance < 100
         \/ heap[i].kind = "CheckingAccount" /\ heap[i].balance >= 0) =>
        LET once == apply_monthly_charges_or_interest(heap[i])
            twice == apply_monthly_charges_or_interest(once)
            all == apply_monthly_updates(heap, bankAccounts)
        IN  /\ once.balance = heap[i].balance
            /\ once.transactions = heap[i].transactions
            /\ twice.balance = heap[i].balance
            /\ twice.transactions = heap[i].transactions
            /\ all[i].balance = heap[i].balance
            /\ all[i].transactions = heap[i].transactions

\* The monthly update has just run over a savings account below 100 and a
\* checking account that is not overdrawn, and neither has a log entry.
C15_Witness ==
    /\ last = Call("apply_monthly_updates", "ok")
    /\ \E i \in Accounts :
          /\ heap[i].kind = "SavingsAccount"
          /\ heap[i].balance < 100
          /\ heap[i].transactions = << >>
    /\ \E j \in Accounts :
          /\ heap[j].kind = "CheckingAccount"
          /\ heap[j].balance >= 0
          /\ heap[j].transactions = << >>

\* C16: every call of the monthly accrual on a checking account with a
\* negative balance takes 25 off the balance and appends exactly one
\* OVERDRAFT_FEE entry with amount -25 and the new balance, on the account
\* or through Bank.apply_monthly_updates; a second call in a row charges a
\* second time.
C16_OverdraftFee ==
    \A i \in Accounts :
        (heap[i].kind = "CheckingAccount" /\ heap[i].balance < 0) =>
        LET b == heap[i].balance
            Charged(acc, n) ==
                [acc EXCEPT !.balance = n,
                            !.transactions =
                                Append(@, Entry("OVERDRAFT_FEE", -25, n))]
            once == apply_monthly_charges_or_interest(heap[i])
            twice == apply_monthly_charges_or_interest(once)
            all == apply_monthly_updates(heap, bankAccounts)
        IN  /\ once = Charged(heap[i], b - 25)
            /\ twice = Charged(once, b - 50)
            /\ all[i] = once
            /\ apply_monthly_updates(all, bankAccounts)[i] = twice

\* The accrual has just charged an overdrawn checking account for the second
\* time in a row.
C16_Witness ==
    /\ last = Call("apply_monthly_charges_or_interest", "ok")
    /\ \E i \in Accounts :
          LET t == heap[i].transactions
          IN  /\ heap[i].kind = "CheckingAccount"
              /\ Len(t) >= 2
              /\ t[Len(t)].type = "OVERDRAFT_FEE"
              /\ t[Len(t) - 1].type = "OVERDRAFT_FEE"
              /\ t[Len(t)].balance_after = t[Len(t) - 1].balance_after - 25

(***************************************************************************)
(* The bank's registry                                                     *)
(***************************************************************************)
\* The account objects of the portfolio of customer c.
Portfolio(c) == {customers[c].accounts[k] : k \in DOMAIN customers[c].accounts}

\* The account objects of the bank's global index.
Indexed == {bankAccounts[n] : n \in DOMAIN bankAccounts}

\* C17: after any sequence of add_customer, create_account (failed calls
\* included), transfer and apply_monthly_updates, the accounts of the bank's
\* index are exactly the accounts of the portfolios of the registered
\* customers, and every account of a portfolio is owned by that customer.
C17_RegistrySync ==
    /\ Indexed = UNION {Portfolio(c) : c \in Registered}
    /\ \A c \in Registered : \A i \in Portfolio(c) :
           i \in Accounts /\ heap[i].owner = c

\* Both customers hold an account, and a create_account has just failed.
C17_Witness ==
    /\ last = Call("create_account", "ValueError")
    /\ \A c \in RegistryIds : c \in Registered /\ Portfolio(c) # {}

\* C18: the k-th account opened for customer c has the identifier c-00k
\* (k below 10), no two accounts of the bank have the same identifier, and
\* each account ever created is still the one the index gives for its
\* identifier: create_account has replaced no entry.
C18_AccountIdentifiers ==
    /\ \A c \in Registered : \A k \in DOMAIN customers[c].accounts :
           k < 10 =>
           heap[customers[c].accounts[k]].account_number
               = c \o "-00" \o ToString(k)
    /\ \A i \in Accounts : \A j \in Accounts :
           i # j => heap[i].account_number # heap[j].account_number
    /\ \A i \in Accounts :
           /\ heap[i].account_number \in DOMAIN bankAccounts
           /\ bankAccounts[heap[i].account_number] = i

\* A customer has just opened a second account while another customer is
\* registered.
C18_Witness ==
    /\ last = Call("create_account", "ok")
    /\ \E c \in Registered :
          /\ Len(customers[c].accounts) = 2
          /\ Registered \ {c} # {}

\* C19: add_customer with an identifier that is registered fails with the
\* error of a duplicate (ValueError in the code) and leaves the customer
\* table as it is: PIN, lock state, failure counter and portfolio of the
\* registered customer are untouched.
C19_DuplicateCustomer ==
    \A c \in Registered : \A pin \in Pins :
        LET r == add_customer(customers, c, pin)
        IN  /\ r.result = "ValueError"
            /\ r.customers = customers

\* A second registration has just been refused for a customer that holds an
\* account and has a failed PIN attempt on record.
C19_Witness ==
    /\ last = Call("add_customer", "ValueError")
    /\ \E c \in Registered :
          /\ customers[c].accounts # << >>
          /\ customers[c].failed_attempts > 0

\* C20: Bank.transfer with a source or destination number that no account
\* has fails with AccountNotFoundError and changes nothing, whatever the
\* amount and the PIN; with two known numbers it ends as Account.transfer on
\* the two accounts ends, with the same state and the same outcome, an
\* InsufficientFundsError, InvalidPINError or AccountLockedError included.
C20_BankTransferLookup ==
    \A n \in AnyNumbers : \A m \in AnyNumbers :
    \A a \in Amounts : \A pin \in PinInputs :
        LET r == bank_transfer(customers, heap, bankAccounts, n, m, a, pin)
        IN  IF n \notin DOMAIN bankAccounts \/ m \notin DOMAIN bankAccounts
            THEN /\ r.result = "AccountNotFoundError"
                 /\ r.customers = customers
                 /\ r.heap = heap
            ELSE /\ r = transfer(customers, heap, bankAccounts[n],
                                 bankAccounts[m], a, pin)
                 /\ r.result \in {"ok", "InvalidAmountError",
                                  "InsufficientFundsError", "InvalidPINError",
                                  "AccountLockedError"}

\* A transfer has just failed for an unknown account number while the bank
\* holds an account whose owner is neither locked nor without failures.
C20_Witness ==
    /\ last = Call("transfer", "AccountNotFoundError")
    /\ \E i \in Accounts :
          /\ ~customers[heap[i].owner].locked
          /\ customers[heap[i].owner].failed_attempts > 0

(***************************************************************************)
(* Statements                                                              *)
(***************************************************************************)
Min(a, b) == IF a <= b THEN a ELSE b

\* C21: the statement of an account whose log has n entries carries the
\* account's identifier, its current balance and exactly the last
\* min(n, 10) entries of the log in the order of the log, the oldest of
\* them first.
C21_StatementWindow ==
    \A i \in Accounts :
        LET st == get_statement(customers, heap[i])
            log == heap[i].transactions
            n == Len(log)
            w == Min(n, 10)
        IN  /\ st.account_number = heap[i].account_number
            /\ st.balance = heap[i].balance
            /\ Len(st.transactions) = w
            /\ \A k \in 1..w : st.transactions[k] = log[n - w + k]

\* A call of get_statement changes neither a customer nor an account nor
\* the index.
C21_ReadOnly ==
    last'.op = "get_statement" => UNCHANGED <<customers, heap, bankAccounts>>

C21_Statement == [](C21_StatementWindow) /\ [][C21_ReadOnly]_vars

\* The statement of an account with 11 log entries has just been read.
C21_Witness ==
    /\ last = Call("get_statement", "ok")
    /\ \E i \in Accounts :
          /\ Len(heap[i].transactions) = 11
          /\ heap[i].balance = 150 + 11 * 50

(***************************************************************************)
(* Unlock and PIN reset                                                    *)
(***************************************************************************)
\* C22: unlock_account returns true exactly when the key is "admin123"; the
\* customer is then unlocked with failure counter 0, the correct PIN
\* verifies again, and it takes three failures in a row to lock again.  With
\* any other key it returns false and changes nothing.
C22_AdminUnlock ==
    \A c \in Registered : \A k \in Keys :
        LET cu == customers[c]
            r == unlock_account(cu, k)
        IN  IF k = "admin123"
            THEN /\ r.result = "True"
                 /\ r.customer = [cu EXCEPT !.locked = FALSE,
                                            !.failed_attempts = 0]
                 /\ \A pin \in Pins :
                        LET v1 == verify_pin(r.customer, pin)
                            v2 == verify_pin(v1.customer, pin)
                            v3 == verify_pin(v2.customer, pin)
                        IN  IF Correct(c, pin)
                            THEN v1.result = "True"
                            ELSE /\ v1.result = "False" /\ ~v1.customer.locked
                                 /\ v2.result = "False" /\ ~v2.customer.locked
                                 /\ v3.result = "AccountLockedError"
                                 /\ v3.customer.locked
            ELSE /\ r.result = "False"
                 /\ r.customer = cu

\* An unlock with the administrative key has just succeeded.
C22_Witness ==
    /\ last = Call("unlock_account", "True")
    /\ \E c \in Registered :
          ~customers[c].locked /\ customers[c].failed_attempts = 0

\* C23: reset_pin(old, new) on an unlocked customer with the correct old
\* PIN returns true and stores the new PIN: the new one verifies, the old
\* one, when different, does not, and the failure counter is 0.  Otherwise
\* the stored credential is unchanged: on a locked customer the call ends
\* with AccountLockedError and changes nothing, and with a wrong old PIN it
\* counts one failure, returning false, or locking and ending with
\* AccountLockedError when it is the third in a row.
C23_PinReset ==
    \A c \in Registered : \A old \in Pins : \A new \in Pins :
        LET cu == customers[c]
            r == reset_pin(cu, old, new)
        IN  IF ~cu.locked /\ Correct(c, old)
            THEN /\ r.result = "True"
                 /\ r.customer.failed_attempts = 0
                 /\ ~r.customer.locked
                 /\ r.customer.accounts = cu.accounts
                 /\ verify_pin(r.customer, new).result = "True"
                 /\ old # new => verify_pin(r.customer, old).result = "False"
            ELSE /\ r.customer.pin_hash = cu.pin_hash
                 /\ IF cu.locked
                    THEN r.result = "AccountLockedError" /\ r.customer = cu
                    ELSE /\ FailureCounted(cu, r.customer)
                         /\ FailureReported(cu, r.result, "False")

\* A PIN has just been reset on a customer that holds an account.
C23_Witness ==
    /\ last = Call("reset_pin", "True")
    /\ \E c \in Registered :
          /\ customers[c].accounts # << >>
          /\ customers[c].failed_attempts = 0

(***************************************************************************)
(* Order of the checks                                                     *)
(***************************************************************************)
\* C24: a transfer whose amount is not covered (savings: amount > balance;
\* checking: amount > balance + overdraft limit) fails with
\* InsufficientFundsError whether the PIN is correct, wrong or missing and
\* whether the owner is locked or not, and changes nothing: no failed
\* attempt is counted.
C24_FundsBeforePin ==
    \A i \in Accounts : \A j \in Accounts :
    \A a \in Amounts : \A pin \in PinInputs :
        (IF heap[i].kind = "SavingsAccount"
         THEN a > heap[i].balance
         ELSE a > heap[i].balance + heap[i].overdraft_limit) =>
        LET r == transfer(customers, heap, i, j, a, pin)
        IN  /\ r.result = "InsufficientFundsError"
            /\ r.customers = customers
            /\ r.heap = heap

\* A transfer has just failed with InsufficientFundsError although the owner
\* is locked.
C24_Witness ==
    /\ last = Call("transfer", "InsufficientFundsError")
    /\ \A c \in Registered : customers[c].locked

\* C25: on an unlocked owner a transfer with a wrong PIN and a covered
\* amount adds exactly 1 to the failure counter and changes no account, and
\* a transfer with the correct PIN and a covered amount leaves the counter
\* at 0 however it ends; from counter 0, one and two wrong-PIN transfers in
\* a row leave the owner unlocked and the third locks.
C25_TransferPinAccounting ==
    \A i \in Accounts : \A j \in Accounts : \A a \in Amounts : \A pin \in Pins :
        LET c == heap[i].owner
            cu == customers[c]
            r1 == transfer(customers, heap, i, j, a, pin)
            r2 == transfer(r1.customers, r1.heap, i, j, a, pin)
            r3 == transfer(r2.customers, r2.heap, i, j, a, pin)
        IN  (~cu.locked /\ Covered(i, a)) =>
            IF Correct(c, pin)
            THEN r1.customers[c].failed_attempts = 0 /\ ~r1.customers[c].locked
            ELSE /\ r1.customers[c].failed_attempts = cu.failed_attempts + 1
                 /\ r1.heap = heap
                 /\ cu.failed_attempts = 0 =>
                        /\ r1.result = "InvalidPINError"
                        /\ ~r1.customers[c].locked
                        /\ r2.result = "InvalidPINError"
                        /\ ~r2.customers[c].locked
                        /\ r3.result = "AccountLockedError"
                        /\ r3.customers[c].locked
                        /\ r3.customers[c].failed_attempts = 3

\* The second wrong-PIN transfer in a row has just failed and the owner is
\* not locked.
C25_Witness ==
    /\ last = Call("transfer", "InvalidPINError")
    /\ \E c \in Registered :
          customers[c].failed_attempts = 2 /\ ~customers[c].locked

\* C26 as claimed: for every account and every positive amount the pre-check
\* of transfer rejects exactly when the floor check of withdraw rejects.
C26_SameCondition ==
    \A i \in Accounts : \A a \in Amounts : a > 0 =>
        (NotCovered(heap[i], a) <=> BelowFloor(heap[i], a))

\* C26 as amended: on a checking account (overdraft limit >= 0) the
\* pre-check rejects a positive amount exactly when the floor check does,
\* amount > balance + limit.  On a savings account the pre-check rejects
\* exactly the amounts above the balance and the floor check exactly those
\* that leave less than 100, so what the pre-check rejects the floor check
\* rejects too, but not the other way round.
C26_PreCheckAndFloor ==
    \A i \in Accounts : \A a \in Amounts : a > 0 =>
        LET b == heap[i].balance
            pre == NotCovered(heap[i], a)
            floor == BelowFloor(heap[i], a)
        IN  IF heap[i].kind = "CheckingAccount"
            THEN /\ pre <=> (a > b + heap[i].overdraft_limit)
                 /\ floor <=> pre
            ELSE /\ pre <=> (a > b)
                 /\ floor <=> (b - a < 100)
                 /\ pre => floor

\* A transfer out of a savings account holding exactly 100 has just failed
\* in the floor check: every positive amount is refused there, and 50 passes
\* the pre-check.
C26_Witness ==
    /\ last = Call("transfer", "InsufficientFundsError")
    /\ \E i \in Accounts :
          heap[i].kind = "SavingsAccount" /\ heap[i].balance = 100

\* C27: a transfer between two distinct accounts that returns has appended
\* to the log of the source a WITHDRAW entry and then an entry "TRANSFER to"
\* the identifier of the destination, both with the amount and the balance
\* after the withdrawal, and to the log of the destination one DEPOSIT entry
\* with the amount and its new balance; a transfer that fails leaves every
\* log as it was.
C27_TransferLog ==
    \A i \in Accounts : \A j \in Accounts \ {i} :
    \A a \in Amounts : \A pin \in PinInputs :
        LET r == transfer(customers, heap, i, j, a, pin)
            bi == heap[i].balance
            bj == heap[j].balance
        IN  IF r.result = "ok"
            THEN /\ r.heap[i].transactions =
                        heap[i].transactions \o
                        << Entry("WITHDRAW", a, bi - a),
                           Entry("TRANSFER to " \o heap[j].account_number,
                                 a, bi - a) >>
                 /\ r.heap[j].transactions =
                        Append(heap[j].transactions,
                               Entry("DEPOSIT", a, bj + a))
                 /\ \A k \in Accounts \ {i, j} :
                        r.heap[k].transactions = heap[k].transactions
            ELSE \A k \in Accounts :
                     r.heap[k].transactions = heap[k].transactions

\* A transfer has just returned: the log of the source ends with WITHDRAW
\* and TRANSFER, that of the destination with DEPOSIT.
C27_Witness ==
    /\ last = Call("transfer", "ok")
    /\ \E i \in Accounts : \E j \in Accounts \ {i} :
          LET s == heap[i].transactions
              t == heap[j].transactions
          IN  /\ Len(s) >= 2 /\ Len(t) >= 1
              /\ s[Len(s) - 1].type = "WITHDRAW"
              /\ s[Len(s)].type = "TRANSFER to " \o heap[j].account_number
              /\ s[Len(s)].balance_after = heap[i].balance
              /\ t[Len(t)].type = "DEPOSIT"

\* C28: withdraw checks the amount, then the PIN, then the floor.  An amount
\* <= 0 fails with InvalidAmountError and changes nothing, whatever the PIN
\* and whether the owner is locked; a positive amount that would go below
\* the floor, with a PIN that is not the owner's, fails with the PIN error
\* (InvalidPINError, or AccountLockedError on the third failure or a locked
\* owner), counting one failure on an unlocked owner, and not with
\* InsufficientFundsError.
C28_WithdrawOrder ==
    \A i \in Accounts : \A a \in Amounts : \A pin \in PinInputs :
        LET r == withdraw(customers, heap, i, a, pin)
            c == heap[i].owner
            cu == customers[c]
            floor == IF heap[i].kind = "SavingsAccount"
                     THEN 100 ELSE -heap[i].overdraft_limit
        IN  /\ a <= 0 =>
                /\ r.result = "InvalidAmountError"
                /\ r.customers = customers
                /\ r.heap = heap
            /\ (a > 0 /\ pin \in Pins /\ ~Correct(c, pin)
                      /\ heap[i].balance - a < floor) =>
                /\ r.result \in {"InvalidPINError", "AccountLockedError"}
                /\ r.heap = heap
                /\ IF cu.locked
                   THEN r.customers = customers
                   ELSE r.customers[c].failed_attempts = cu.failed_attempts + 1

\* A withdrawal of an amount that is not positive has just been refused on
\* the account of a locked owner.
C28_Witness ==
    /\ last = Call("withdraw", "InvalidAmountError")
    /\ \A c \in Registered : customers[c].locked

(***************************************************************************)
(* Invariants of customers and logs                                        *)
(***************************************************************************)
\* C29: the failure counter of every customer is between 0 and 3, and the
\* customer is locked exactly when the counter is 3.
C29_LockAndCounter ==
    \A c \in Registered :
        /\ customers[c].failed_attempts \in 0..3
        /\ customers[c].locked <=> (customers[c].failed_attempts = 3)

\* A PIN reset has just been refused on a locked customer.
C29_Witness ==
    /\ last = Call("reset_pin", "AccountLockedError")
    /\ \E c \in Registered :
          customers[c].locked /\ customers[c].failed_attempts = 3

\* C30: the log of every account is append-only: every step keeps the
\* entries there are, in place, and a call that fails appends none; and
\* whenever a log is not empty, the balance recorded in its last entry is
\* the balance of the account.
C30_LastEntry ==
    \A i \in Accounts :
        LET t == heap[i].transactions
        IN  t # << >> => t[Len(t)].balance_after = heap[i].balance

C30_AppendOnly ==
    \A i \in DOMAIN heap :
        LET t == heap[i].transactions
        IN  /\ i \in DOMAIN heap'
            /\ Len(heap'[i].transactions) >= Len(t)
            /\ SubSeq(heap'[i].transactions, 1, Len(t)) = t
            /\ last'.result \notin {"ok", "True", "False"} =>
                   heap'[i].transactions = t

C30_LogIntegrity == [](C30_LastEntry) /\ [][C30_AppendOnly]_vars

\* The accrual has just written the third entry of a log.
C30_Witness ==
    /\ last = Call("apply_monthly_charges_or_interest", "ok")
    /\ \E i \in Accounts :
          LET t == heap[i].transactions
          IN  /\ Len(t) = 3
              /\ t[3].type \in {"INTEREST", "OVERDRAFT_FEE"}

(***************************************************************************)
(* The lock belongs to the customer                                        *)
(***************************************************************************)
\* The failure counter after one more failure: it stops at 3, where the
\* customer is locked and a further attempt is refused without counting.
OneMoreFailure(n) == IF n < 3 THEN n + 1 ELSE 3

\* C31: the failure counter and the lock are the customer's.
\* (a) Wrong PINs given through different accounts of one customer, by
\*     withdraw and then by transfer, add up on the one counter of that
\*     customer.
\* (b) Once the customer is locked, every withdraw and every outgoing
\*     transfer with a PIN fails on each of the customer's accounts and
\*     changes nothing, with AccountLockedError when amount and funds pass.
\* (c) A deposit into an account of a locked customer still succeeds, and
\*     so does a transfer into it from an account of another customer who
\*     is not locked, gives the own PIN and has the funds; the monthly
\*     accrual of the account does what it does for an unlocked owner.
\* (d) No call on an account changes the counter or the lock flag of a
\*     customer other than the owner of the account the PIN is asked for.
C31_LockPerCustomer ==
    \A c \in Registered :
        LET cu == customers[c]
            Others(cs) == \A d \in Registered \ {c} : cs[d] = customers[d]
        IN
        /\ \A i \in Owned(c) : \A i2 \in Owned(c) : \A j \in Accounts :
           \A pin \in Pins : \A a \in Amounts :
               (~cu.locked /\ ~Correct(c, pin) /\ a > 0 /\ Covered(i2, a)) =>
               LET r1 == withdraw(customers, heap, i, a, pin)
                   r2 == transfer(r1.customers, r1.heap, i2, j, a, pin)
                   n1 == OneMoreFailure(cu.failed_attempts)
                   n2 == OneMoreFailure(n1)
               IN  /\ r1.customers[c].failed_attempts = n1
                   /\ r2.customers[c].failed_attempts = n2
                   /\ r2.customers[c].locked <=> (n2 = 3)
                   /\ r2.heap = heap
        /\ cu.locked =>
               \A i \in Owned(c) : \A a \in Amounts : \A pin \in Pins :
                   /\ LET r == withdraw(customers, heap, i, a, pin)
                      IN  /\ r.result # "ok"
                          /\ a > 0 => r.result = "AccountLockedError"
                          /\ r.heap = heap
                          /\ r.customers = customers
                   /\ \A j \in Accounts :
                          LET r == transfer(customers, heap, i, j, a, pin)
                          IN  /\ r.result # "ok"
                              /\ Covered(i, a) =>
                                     r.result = "AccountLockedError"
                              /\ r.heap = heap
                              /\ r.customers = customers
        /\ cu.locked =>
               \A i \in Owned(c) : \A a \in Amounts : a > 0 =>
                   /\ LET r == deposit(customers, heap, i, a)
                      IN  /\ r.result = "ok"
                          /\ r.heap[i].balance = heap[i].balance + a
                          /\ r.customers = customers
                   /\ \A j \in Accounts \ Owned(c) : \A pin \in Pins :
                          (/\ Authorised(j, pin)
                           /\ heap[j].balance - a >=
                                  (IF heap[j].kind = "SavingsAccount"
                                   THEN 100 ELSE -heap[j].overdraft_limit)) =>
                          LET r == transfer(customers, heap, j, i, a, pin)
                          IN  /\ r.result = "ok"
                              /\ r.heap[i].balance = heap[i].balance + a
                              /\ r.customers[c] = cu
                   /\ LET m == apply_monthly_updates(heap, bankAccounts)[i]
                          b == heap[i].balance
                      IN  /\ (heap[i].kind = "SavingsAccount" /\ b >= 100) =>
                                 /\ m.balance =
                                        b + (b * heap[i].interest_rate) \div 1200
                                 /\ Len(m.transactions) =
                                        Len(heap[i].transactions) + 1
                          /\ (heap[i].kind = "CheckingAccount" /\ b < 0) =>
                                 /\ m.balance = b - 25
                                 /\ Len(m.transactions) =
                                        Len(heap[i].transactions) + 1
        /\ \A i \in Owned(c) : \A j \in Accounts : \A a \in Amounts :
           \A pin \in PinInputs :
               /\ Others(withdraw(customers, heap, i, a, pin).customers)
               /\ Others(transfer(customers, heap, i, j, a, pin).customers)
               /\ Others(deposit(customers, heap, i, a).customers)

\* A transfer from the second customer has just arrived in an account of
\* the first, who is locked.
C31_Witness ==
    /\ last = Call("transfer", "ok")
    /\ \E c \in Registered : \E i \in Owned(c) : \E j \in Accounts \ Owned(c) :
          LET s == heap[j].transactions
              t == heap[i].transactions
          IN  /\ customers[c].locked
              /\ ~customers[heap[j].owner].locked
              /\ s # << >> /\ t # << >>
              /\ s[Len(s)].type = "TRANSFER to " \o heap[i].account_number
              /\ t[Len(t)].type = "DEPOSIT"
====
